---------------------------- MODULE Spec2Model ----------------------------
(***************************************************************************)
(* The expression-state engine of the calculator in src/script.js: the     *)
(* expression text state.expr, the display text, the "error" class of the  *)
(* display, the pending error-reset timers and the angle mode, with one    *)
(* action per handler.                                                     *)
(*                                                                         *)
(* A text is a sequence of one-character strings.  The four visual glyphs  *)
(* of symbolMap are written as the tokens "TIMES" (U+00D7), "DIVIDE"       *)
(* (U+00F7), "MINUS" (U+2212) and "ENDASH" (U+2013); each stands for one   *)
(* character.                                                              *)
(***************************************************************************)
EXTENDS Integers, Sequences, FiniteSets, TLC

VARIABLES
  variant,     \* "sci": lines 1-458 of script.js; "basic": lines 460-700
  expr,        \* state.expr
  display,     \* displayEl.textContent
  errorClass,  \* displayEl.classList.contains("error")
  timers,      \* number of setTimeout callbacks of showError still pending
  angleMode,   \* "deg" or "rad"
  last         \* history: the last handler that ran, its argument, its branch
               \* and the text it read

vars == <<variant, expr, display, errorClass, timers, angleMode, last>>

(***************************************************************************)
(* Bounds of the model.                                                    *)
(***************************************************************************)
\* the length of the texts the keys spell
MaxLen == 3
\* showError schedules a reset only while fewer than this many are pending
MaxTimers == 2

(***************************************************************************)
(* Characters.                                                             *)
(***************************************************************************)
Digits == {"0", "1", "2", "3", "4", "5", "6", "7", "8", "9"}

DigitVal(c) ==
  CASE c = "0" -> 0 [] c = "1" -> 1 [] c = "2" -> 2 [] c = "3" -> 3
    [] c = "4" -> 4 [] c = "5" -> 5 [] c = "6" -> 6 [] c = "7" -> 7
    [] c = "8" -> 8 [] c = "9" -> 9

DigitChar(n) ==
  CASE n = 0 -> "0" [] n = 1 -> "1" [] n = 2 -> "2" [] n = 3 -> "3"
    [] n = 4 -> "4" [] n = 5 -> "5" [] n = 6 -> "6" [] n = 7 -> "7"
    [] n = 8 -> "8" [] n = 9 -> "9"

\* symbolMap: the visual symbols and the operator each maps to
symbolMap ==
  [c \in {"TIMES", "DIVIDE", "MINUS", "ENDASH"} |->
     CASE c = "TIMES" -> "*" [] c = "DIVIDE" -> "/"
       [] c = "MINUS" -> "-" [] c = "ENDASH" -> "-"]

\* the messages showError is called with, as texts
MsgMathError == <<"M", "a", "t", "h", " ", "e", "r", "r", "o", "r">>
MsgInvalid == <<"I", "n", "v", "a", "l", "i", "d">>
MsgInvalidChars ==
  <<"I", "n", "v", "a", "l", "i", "d", " ", "c", "h", "a", "r", "a", "c", "t", "e", "r", "s">>
MsgError == <<"E", "r", "r", "o", "r">>

MsgText(msg) ==
  CASE msg = "Math error" -> MsgMathError
    [] msg = "Invalid" -> MsgInvalid
    [] msg = "Invalid characters" -> MsgInvalidChars
    [] msg = "Error" -> MsgError

(***************************************************************************)
(* The trailing-number match of negateLastNumber, percentLastNumber and    *)
(* applySciFunction: a lazy prefix group, then an optional minus, digits,  *)
(* an optional point and digits, anchored at the end.                      *)
(***************************************************************************)
AllDigits(s) == \A i \in 1..Len(s) : s[i] \in Digits

\* s matches the unsigned part (digits, optional point, digits) in full
MatchesUnsigned(s) ==
  \/ AllDigits(s)
  \/ \E i \in 1..Len(s) :
       /\ s[i] = "."
       /\ AllDigits(SubSeq(s, 1, i - 1))
       /\ AllDigits(SubSeq(s, i + 1, Len(s)))

\* s matches the second group (optional minus, then the unsigned part) in full
MatchesTail(s) ==
  \/ MatchesUnsigned(s)
  \/ Len(s) > 0 /\ s[1] = "-" /\ MatchesUnsigned(Tail(s))

\* The lazy first group takes the shortest prefix after which the rest
\* matches: the length of m[1].
PrefixLen(e) ==
  CHOOSE i \in 0..Len(e) :
    /\ MatchesTail(SubSeq(e, i + 1, Len(e)))
    /\ \A j \in 0..(i - 1) : ~MatchesTail(SubSeq(e, j + 1, Len(e)))

matchPrefix(e) == SubSeq(e, 1, PrefixLen(e))
matchLast(e) == SubSeq(e, PrefixLen(e) + 1, Len(e))

(***************************************************************************)
(* Numbers.  A JavaScript number is modelled as one of                     *)
(*   [k |-> "num", s, n, d, e]  the finite value s * (n / d) * 10^e, with  *)
(*        s the sign (1 or -1, kept for zero as IEEE 754 keeps it), n and  *)
(*        d coprime, d coprime to 10 and n not a multiple of 10;           *)
(*   [k |-> "inf", s]           +Infinity or -Infinity;                    *)
(*   [k |-> "nan"]              NaN;                                       *)
(*   [k |-> "err"]              no value: the evaluation threw;            *)
(*   [k |-> "unrep"]            a value this arithmetic does not carry     *)
(*        (a mantissa beyond IntLimit, an irrational result, or a result   *)
(*        on which binary rounding and exact arithmetic may disagree).     *)
(* A handler whose result is "unrep" is not modelled in that state.        *)
(***************************************************************************)
\* the largest numerator or denominator the arithmetic carries
IntLimit == 1000000000

NaNv == [k |-> "nan"]
Errv == [k |-> "err"]
Unrep == [k |-> "unrep"]
Infv(s) == [k |-> "inf", s |-> s]
Zero(s) == [k |-> "num", s |-> s, n |-> 0, d |-> 1, e |-> 0]

RECURSIVE Gcd(_, _)
Gcd(a, b) == IF b = 0 THEN a ELSE Gcd(b, a % b)

RECURSIVE NumDigits(_)
NumDigits(n) == IF n < 10 THEN 1 ELSE 1 + NumDigits(n \div 10)

RECURSIVE Pow10(_)
Pow10(k) == IF k = 0 THEN 1 ELSE 10 * Pow10(k - 1)

\* a * b stays within IntLimit (a, b >= 0)
MulOk(a, b) == b = 0 \/ a <= IntLimit \div b

\* the finite value s * (n / d) * 10^e with n, d in normal form, placed in
\* the range of a double: Number.MAX_VALUE is about 1.8 * 10^308 and
\* Number.MIN_VALUE about 4.9 * 10^-324, beyond them a result is an infinity
\* or a zero, and near them it is not carried
Ranged(s, n, d, e) ==
  LET mag == NumDigits(n) - NumDigits(d) + e
  IN IF mag > 310 THEN Infv(s)
     ELSE IF mag >= 307 THEN Unrep
     ELSE IF mag < -326 THEN Zero(s)
     ELSE IF mag <= -306 THEN Unrep
     ELSE [k |-> "num", s |-> s, n |-> n, d |-> d, e |-> e]

\* trailing zeros of the numerator go to the exponent
RECURSIVE StripTens(_, _, _, _)
StripTens(s, n, d, e) ==
  IF n % 10 = 0 THEN StripTens(s, n \div 10, d, e + 1) ELSE Ranged(s, n, d, e)

\* factors 2 and 5 of the denominator go to the exponent
RECURSIVE StripDen(_, _, _, _)
StripDen(s, n, d, e) ==
  IF d % 2 = 0
    THEN IF MulOk(n, 5) THEN StripDen(s, n * 5, d \div 2, e - 1) ELSE Unrep
  ELSE IF d % 5 = 0
    THEN IF MulOk(n, 2) THEN StripDen(s, n * 2, d \div 5, e - 1) ELSE Unrep
  ELSE StripTens(s, n, d, e)

\* the value s * (n / d) * 10^e for any n >= 0, d >= 1
Norm(s, n, d, e) ==
  IF n = 0 THEN Zero(s)
  ELSE LET g == Gcd(n, d) IN StripDen(s, n \div g, d \div g, e)

IntV(i) == Norm(IF i < 0 THEN -1 ELSE 1, IF i < 0 THEN -i ELSE i, 1, 0)

One == [k |-> "num", s |-> 1, n |-> 1, d |-> 1, e |-> 0]

IsZero(v) == v.k = "num" /\ v.n = 0
IsIntegerNum(v) == v.k = "num" /\ v.d = 1 /\ (v.n = 0 \/ v.e >= 0)

RECURSIVE Pow5Divides(_, _)
Pow5Divides(k, n) == k = 0 \/ (n % 5 = 0 /\ Pow5Divides(k - 1, n \div 5))

\* the value is a double exactly: an integer of at most 15 digits or a
\* fraction whose denominator is a power of two
BinaryExact(v) ==
  /\ v.k = "num"
  /\ v.d = 1
  /\ \/ v.n = 0
     \/ v.e >= 0 /\ NumDigits(v.n) + v.e <= 15
     \/ v.e < 0 /\ v.e >= -9 /\ Pow5Divides(-v.e, v.n)

Neg(v) ==
  CASE v.k = "num" -> [v EXCEPT !.s = -v.s]
    [] v.k = "inf" -> Infv(-v.s)
    [] OTHER -> v

\* the first of err, unrep, nan that an operand forces on a result, or "none"
Forced(a, b) ==
  IF a.k = "err" \/ b.k = "err" THEN "err"
  ELSE IF a.k = "unrep" \/ b.k = "unrep" THEN "unrep"
  ELSE IF a.k = "nan" \/ b.k = "nan" THEN "nan"
  ELSE "none"

ForcedValue(f) == CASE f = "err" -> Errv [] f = "unrep" -> Unrep [] f = "nan" -> NaNv

Mul(a, b) ==
  IF Forced(a, b) # "none" THEN ForcedValue(Forced(a, b))
  ELSE IF a.k = "inf" \/ b.k = "inf"
    THEN IF IsZero(a) \/ IsZero(b) THEN NaNv ELSE Infv(a.s * b.s)
  ELSE LET g1 == Gcd(a.n, b.d)
           g2 == Gcd(b.n, a.d)
           n1 == a.n \div g1
           n2 == b.n \div g2
           d1 == a.d \div g2
           d2 == b.d \div g1
       IN IF a.n = 0 \/ b.n = 0 THEN Zero(a.s * b.s)
          ELSE IF MulOk(n1, n2) /\ MulOk(d1, d2)
            THEN Norm(a.s * b.s, n1 * n2, d1 * d2, a.e + b.e)
          ELSE Unrep

Div(a, b) ==
  IF Forced(a, b) # "none" THEN ForcedValue(Forced(a, b))
  ELSE IF a.k = "inf"
    THEN IF b.k = "inf" THEN NaNv ELSE Infv(a.s * b.s)
  ELSE IF b.k = "inf" THEN Zero(a.s * b.s)
  ELSE IF b.n = 0
    THEN IF a.n = 0 THEN NaNv ELSE Infv(a.s * b.s)
  ELSE Mul(a, Norm(b.s, b.d, b.n, -b.e))

Add(a, b) ==
  IF Forced(a, b) # "none" THEN ForcedValue(Forced(a, b))
  ELSE IF a.k = "inf"
    THEN IF b.k = "inf" /\ b.s # a.s THEN NaNv ELSE a
  ELSE IF b.k = "inf" THEN b
  ELSE IF a.n = 0 /\ b.n = 0 THEN Zero(IF a.s = -1 /\ b.s = -1 THEN -1 ELSE 1)
  ELSE IF a.n = 0 THEN b
  ELSE IF b.n = 0 THEN a
  ELSE LET e == IF a.e < b.e THEN a.e ELSE b.e
           k1 == a.e - e
           k2 == b.e - e
       IN IF k1 > 9 \/ k2 > 9 THEN Unrep
          ELSE IF ~(MulOk(a.n, Pow10(k1)) /\ MulOk(b.n, Pow10(k2))) THEN Unrep
          ELSE IF ~(MulOk(a.n * Pow10(k1), b.d) /\ MulOk(b.n * Pow10(k2), a.d)
                      /\ MulOk(a.d, b.d)) THEN Unrep
          ELSE LET x == a.s * a.n * Pow10(k1) * b.d
                   y == b.s * b.n * Pow10(k2) * a.d
                   z == x + y
               IN IF z = 0
                    THEN IF BinaryExact(a) /\ BinaryExact(b) THEN Zero(1) ELSE Unrep
                  ELSE IF z < 0 THEN Norm(-1, -z, a.d * b.d, e)
                  ELSE Norm(1, z, a.d * b.d, e)

Sub(a, b) == Add(a, Neg(b))

\* the remainder operator: the sign of the dividend, truncating division
Rem(a, b) ==
  IF Forced(a, b) # "none" THEN ForcedValue(Forced(a, b))
  ELSE IF a.k = "inf" THEN NaNv
  ELSE IF b.k = "inf" THEN a
  ELSE IF b.n = 0 THEN NaNv
  ELSE IF a.n = 0 THEN a
  ELSE IF ~(IsIntegerNum(a) /\ IsIntegerNum(b) /\ BinaryExact(a) /\ BinaryExact(b)) THEN Unrep
  ELSE IF a.e > 9 \/ b.e > 9 THEN Unrep
  ELSE IF ~(MulOk(a.n, Pow10(a.e)) /\ MulOk(b.n, Pow10(b.e))) THEN Unrep
  ELSE LET r == (a.n * Pow10(a.e)) % (b.n * Pow10(b.e))
       IN Norm(a.s, r, 1, 0)

\* a, the magnitude of a finite base, to the integer power k >= 0, by
\* repeated squaring
RECURSIVE PowNat(_, _)
PowNat(a, k) ==
  IF k = 0 THEN One
  ELSE IF k % 2 = 0 THEN LET h == PowNat(a, k \div 2) IN Mul(h, h)
  ELSE Mul(a, PowNat(a, k - 1))

\* integer exponents up to this are multiplied out
MaxExponent == 2000

\* the integer an integral value of at most IntLimit denotes, else -1
SmallNat(v) ==
  IF IsIntegerNum(v) /\ v.e <= 9 /\ MulOk(v.n, Pow10(v.e))
    THEN v.n * Pow10(v.e)
  ELSE -1

IsOddInteger(v) == IsIntegerNum(v) /\ v.e = 0 /\ v.n % 2 = 1

\* -1 where a negative base to the power b is negative
OddSign(a, b) == IF a.s = -1 /\ IsOddInteger(b) THEN -1 ELSE 1

\* the value r with the sign sgn
WithSign(r, sgn) == IF r.k \in {"num", "inf"} THEN [r EXCEPT !.s = sgn] ELSE r

\* pw for a positive exponent, its reciprocal for a negative one
Reciprocal(pw, positive) == IF positive THEN pw ELSE Div(One, pw)

\* a ** b for a finite a other than 0, 1 and -1 and an integer b other than 0
PowInteger(a, b, k) ==
  IF k < 0 \/ k > MaxExponent THEN Unrep
  ELSE WithSign(Reciprocal(PowNat([a EXCEPT !.s = 1], k), b.s = 1), OddSign(a, b))

\* a ** b (Number::exponentiate)
Pow(a, b) ==
  IF a.k = "err" \/ b.k = "err" THEN Errv
  ELSE IF a.k = "unrep" \/ b.k = "unrep" THEN Unrep
  ELSE IF b.k = "nan" THEN NaNv
  ELSE IF IsZero(b) THEN One
  ELSE IF a.k = "nan" THEN NaNv
  ELSE IF b.k = "inf"
    THEN IF a.k = "inf" THEN (IF b.s = 1 THEN Infv(1) ELSE Zero(1))
         ELSE IF a.n = a.d /\ a.e = 0 THEN NaNv
         ELSE IF (NumDigits(a.n) - NumDigits(a.d) + a.e >= 1 \/ (a.e = 0 /\ a.n > a.d))
                   = (b.s = 1)
           THEN Infv(1)
         ELSE Zero(1)
  ELSE IF a.k = "inf"
    THEN IF b.s = 1 THEN Infv(OddSign(a, b)) ELSE Zero(OddSign(a, b))
  ELSE IF a.n = 0
    THEN IF b.s = 1 THEN Zero(OddSign(a, b)) ELSE Infv(OddSign(a, b))
  ELSE IF ~IsIntegerNum(b)
    THEN IF a.s = -1 THEN NaNv
         ELSE IF a.n = 1 /\ a.d = 1 /\ a.e = 0 THEN One
         ELSE Unrep
  ELSE IF a.n = 1 /\ a.d = 1 /\ a.e = 0 THEN WithSign(One, OddSign(a, b))
  ELSE PowInteger(a, b, SmallNat(b))

(***************************************************************************)
(* Numbers and texts: parseFloat on a trailing number, Number's toString   *)
(* and toFixed.                                                            *)
(***************************************************************************)
RECURSIVE DigitsValue(_)
DigitsValue(ds) ==
  IF ds = <<>> THEN 0
  ELSE 10 * DigitsValue(SubSeq(ds, 1, Len(ds) - 1)) + DigitVal(ds[Len(ds)])

RECURSIVE StripLeadingZeros(_)
StripLeadingZeros(ds) ==
  IF ds # <<>> /\ ds[1] = "0" THEN StripLeadingZeros(Tail(ds)) ELSE ds

RECURSIVE StripTrailingZeros(_)
StripTrailingZeros(ds) ==
  IF ds # <<>> /\ ds[Len(ds)] = "0"
    THEN StripTrailingZeros(SubSeq(ds, 1, Len(ds) - 1))
  ELSE ds

\* the decimal digits of n >= 0
RECURSIVE IntDigits(_)
IntDigits(n) ==
  IF n < 10 THEN <<DigitChar(n)>> ELSE Append(IntDigits(n \div 10), DigitChar(n % 10))

Zeros(k) == [i \in 1..k |-> "0"]

\* the value of the digits ip, a point, and the digits fp
DecimalValue(s, ip, fp) ==
  LET ds == StripLeadingZeros(ip \o fp)
  IN IF Len(ds) > 9 THEN Unrep ELSE Norm(s, DigitsValue(ds), 1, -Len(fp))

\* the position of the point in an unsigned text, Len + 1 if it has none
PointPos(u) ==
  IF \E i \in 1..Len(u) : u[i] = "."
    THEN CHOOSE i \in 1..Len(u) : u[i] = "."
  ELSE Len(u) + 1

\* parseFloat(last) for a text the trailing-number match returns: NaN when
\* it holds no digit
parseFloat(lst) ==
  LET neg == lst # <<>> /\ lst[1] = "-"
      u == IF neg THEN Tail(lst) ELSE lst
      ip == SubSeq(u, 1, PointPos(u) - 1)
      fp == SubSeq(u, PointPos(u) + 1, Len(u))
  IN IF ip = <<>> /\ fp = <<>> THEN NaNv
     ELSE DecimalValue(IF neg THEN -1 ELSE 1, ip, fp)

\* Number::toString of the value 0.d1...dk * 10^p, ds its digits d1...dk
\* without leading or trailing zeros
DigitsToString(neg, ds, p) ==
  LET k == Len(ds)
      x == p - 1
      ex == <<"e">> \o (IF x < 0 THEN <<"-">> ELSE <<"+">>)
              \o IntDigits(IF x < 0 THEN -x ELSE x)
      body ==
        IF k <= p /\ p <= 21 THEN ds \o Zeros(p - k)
        ELSE IF 0 < p /\ p <= 21 THEN SubSeq(ds, 1, p) \o <<".">> \o SubSeq(ds, p + 1, k)
        ELSE IF -6 < p /\ p <= 0 THEN <<"0", ".">> \o Zeros(-p) \o ds
        ELSE IF k = 1 THEN ds \o ex
        ELSE <<ds[1], ".">> \o SubSeq(ds, 2, k) \o ex
  IN IF ds = <<>> THEN <<"0">>
     ELSE IF neg THEN <<"-">> \o body ELSE body

\* n.toString() of a carried value with a terminating decimal expansion
numToString(v) ==
  LET ds == IntDigits(v.n)
  IN IF v.n = 0 THEN <<"0">> ELSE DigitsToString(v.s = -1, ds, Len(ds) + v.e)

\* the first m digits after the point of r / d (r < d), then the remainder
RECURSIVE LongDiv(_, _, _)
LongDiv(r, d, m) ==
  IF m = 0 THEN [ds |-> <<>>, r |-> r]
  ELSE LET rest == LongDiv((r * 10) % d, d, m - 1)
       IN [ds |-> <<DigitChar((r * 10) \div d)>> \o rest.ds, r |-> rest.r]

\* the digits of the number one above the number ds denotes
RECURSIVE IncDigits(_)
IncDigits(ds) ==
  IF ds = <<>> THEN <<"1">>
  ELSE IF ds[Len(ds)] = "9" THEN Append(IncDigits(SubSeq(ds, 1, Len(ds) - 1)), "0")
  ELSE Append(SubSeq(ds, 1, Len(ds) - 1), DigitChar(DigitVal(ds[Len(ds)]) + 1))

\* ds, or the digits of the number one above when up holds
RoundUp(ds, up) == IF up THEN IncDigits(ds) ELSE ds

\* the digits q of the whole part followed by the digits ld of the
\* fraction, rounded on the remainder
FixedFraction(q, ld, d) == RoundUp(q \o ld.ds, 2 * ld.r >= d)

\* the digits padded without its last k digits, rounded on the first of them
FixedWhole(padded, k) ==
  RoundUp(SubSeq(padded, 1, Len(padded) - k), DigitVal(padded[Len(padded) - k + 1]) >= 5)

\* q with zeros in front so that it has more than k digits
Padded(q, k) == Zeros(IF k > Len(q) THEN k - Len(q) + 1 ELSE 0) \o q

\* the digits of the integer nearest to |v| * 10^prec, halves rounding up:
\* the digits of v.toFixed(prec) without its point
FixedDigits(v, prec) ==
  IF prec + v.e >= 0
    THEN FixedFraction(IntDigits(v.n \div v.d), LongDiv(v.n % v.d, v.d, prec + v.e), v.d)
  ELSE FixedWhole(Padded(IntDigits(v.n \div v.d), -(prec + v.e)), -(prec + v.e))

\* the decimal places formatResult rounds to
Precision(vr) == IF vr = "sci" THEN 12 ELSE 10

\* the value is one whose text formatResult produces is the text JavaScript
\* produces: at most 15 significant digits after rounding
Formattable(v) ==
  /\ v.k = "num"
  /\ \/ v.d = 1
     \/ v.d <= 100000000 /\ NumDigits(v.n) - NumDigits(v.d) + v.e <= 2

\* parseFloat(n.toFixed(prec)).toString() from the digits all of toFixed
FixedToString(neg, all, prec) ==
  DigitsToString(neg, StripTrailingZeros(all), Len(all) - prec)

\* formatResult(n) for a finite carried number
formatResult(v, vr) ==
  IF IsIntegerNum(v) THEN numToString(v)
  ELSE FixedToString(v.s = -1, StripLeadingZeros(FixedDigits(v, Precision(vr))), Precision(vr))

(***************************************************************************)
(* normalizeExpression, allowedRE and the stripping of one trailing        *)
(* character in calculate.                                                 *)
(***************************************************************************)
RECURSIVE ReplaceCaret(_)
ReplaceCaret(t) ==
  IF t = <<>> THEN <<>>
  ELSE IF t[1] = "^" THEN <<"*", "*">> \o ReplaceCaret(Tail(t))
  ELSE <<t[1]>> \o ReplaceCaret(Tail(t))

MapSymbols(t) ==
  [i \in 1..Len(t) |-> IF t[i] \in DOMAIN symbolMap THEN symbolMap[t[i]] ELSE t[i]]

\* the scientific script also rewrites the caret; the basic one does not
normalizeExpression(t, vr) ==
  IF vr = "sci" THEN ReplaceCaret(MapSymbols(t)) ELSE MapSymbols(t)

AllowedChars(vr) ==
  Digits \cup {"+", "-", "*", "/", "%", "(", ")", ".", " "}
    \cup (IF vr = "sci" THEN {"^"} ELSE {})

\* allowedRE.test(t)
allowedRE(t, vr) == t # <<>> /\ \A i \in 1..Len(t) : t[i] \in AllowedChars(vr)

\* the characters of which calculate removes one from the end of the text
StrippedAtEnd(c, vr) ==
  IF vr = "sci" THEN c \in {"*", "+", "-", "/", "^", "%"}
  ELSE c \notin (Digits \cup {".", ")"})

safeExpr(t, vr) ==
  IF t # <<>> /\ StrippedAtEnd(t[Len(t)], vr) THEN SubSeq(t, 1, Len(t) - 1) ELSE t

(***************************************************************************)
(* The evaluation primitive: Function('"use strict"; return (' + text +    *)
(* ')')(), as far as the allowed characters reach.  The text is read in    *)
(* its parentheses as JavaScript reads it: comments, numeric literals of   *)
(* strict mode, regular expression literals, the update operators ++ and   *)
(* --, unary + and -, **, * / % and + - with their precedence.  A value    *)
(* [k |-> "obj"] is a regular expression or a string.  "err" is a throw: a *)
(* SyntaxError when the function is built or a TypeError when it runs.     *)
(***************************************************************************)
Obj == [k |-> "obj"]

At(w, p) == IF p >= 1 /\ p <= Len(w) THEN w[p] ELSE ""

\* the position after the white space and comments at p; 0 when a block
\* comment is not closed
RECURSIVE SkipTrivia(_, _)
SkipTrivia(w, p) ==
  IF At(w, p) = " " THEN SkipTrivia(w, p + 1)
  ELSE IF At(w, p) = "/" /\ At(w, p + 1) = "/" THEN Len(w) + 1
  ELSE IF At(w, p) = "/" /\ At(w, p + 1) = "*"
    THEN LET ends == {j \in (p + 2)..Len(w) : At(w, j) = "*" /\ At(w, j + 1) = "/"}
         IN IF ends = {} THEN 0
            ELSE SkipTrivia(w, (CHOOSE j \in ends : \A i \in ends : j <= i) + 2)
  ELSE p

\* the pattern of a regular expression literal is one the constructor takes
RegexBodyValid(b) ==
  /\ \A i \in 1..Len(b) :
       Cardinality({j \in 1..i : b[j] = "("}) >= Cardinality({j \in 1..i : b[j] = ")"})
  /\ Cardinality({j \in 1..Len(b) : b[j] = "("}) = Cardinality({j \in 1..Len(b) : b[j] = ")"})
  /\ \A i \in 1..Len(b) :
       b[i] \in {"*", "+"} => i > 1 /\ b[i - 1] \notin {"(", "*", "+"}

\* the end of the run of digits that starts at p
RECURSIVE DigitsEnd(_, _)
DigitsEnd(w, p) == IF At(w, p) \in Digits THEN DigitsEnd(w, p + 1) ELSE p

Res(v, p) == [v |-> v, p |-> p, un |-> FALSE]
Fail == [v |-> Errv, p |-> 0, un |-> FALSE]

\* a numeric literal at p
LexNumber(w, p) ==
  LET ie == DigitsEnd(w, p)
      fe == IF At(w, ie) = "." THEN DigitsEnd(w, ie + 1) ELSE ie
      ip == SubSeq(w, p, ie - 1)
      fp == SubSeq(w, ie + 1, fe - 1)
  IN IF ip = <<>> /\ fp = <<>> THEN Fail
     ELSE IF Len(ip) > 1 /\ ip[1] = "0" THEN Fail
     ELSE Res(DecimalValue(1, ip, fp), fe)

\* a regular expression literal at p
LexRegex(w, p) ==
  LET ends == {j \in (p + 1)..Len(w) : w[j] = "/"}
      j == CHOOSE x \in ends : \A y \in ends : x <= y
  IN IF ends = {} THEN Fail
     ELSE IF ~RegexBodyValid(SubSeq(w, p + 1, j - 1)) THEN Fail
     ELSE IF At(w, j + 1) \in Digits THEN Fail
     ELSE Res(Obj, j + 1)

\* ToNumber of an operand
ToNumber(v) == IF v.k = "obj" THEN NaNv ELSE v

JsAdd(a, b) ==
  IF a.k = "err" \/ b.k = "err" THEN Errv
  ELSE IF a.k = "unrep" \/ b.k = "unrep" THEN Unrep
  ELSE IF a.k = "obj" \/ b.k = "obj" THEN Obj
  ELSE Add(a, b)

Binary(op, a, b) ==
  CASE op = "+" -> JsAdd(a, b)
    [] op = "-" -> Sub(ToNumber(a), ToNumber(b))
    [] op = "*" -> Mul(ToNumber(a), ToNumber(b))
    [] op = "/" -> Div(ToNumber(a), ToNumber(b))
    [] op = "%" -> Rem(ToNumber(a), ToNumber(b))
    [] op = "**" -> Pow(ToNumber(a), ToNumber(b))

\* the operator token at q: "++" and "--" are the update operators, "" is
\* anything else
OpAt(w, q) ==
  IF At(w, q) \in {"+", "-"}
    THEN IF At(w, q + 1) = At(w, q) THEN "++" ELSE At(w, q)
  ELSE IF At(w, q) = "*" /\ At(w, q + 1) = "*" THEN "**"
  ELSE IF At(w, q) \in {"*", "/", "%"} THEN At(w, q)
  ELSE ""

\* the precedence of a binary operator
Prec(op) ==
  CASE op \in {"+", "-"} -> 1
    [] op \in {"*", "/", "%"} -> 2
    [] op = "**" -> 3
    [] OTHER -> 0

\* the least precedence of an operator in the right operand of op: ** binds
\* to the right, the others to the left
RightPrec(op) == IF op = "**" THEN 3 ELSE Prec(op) + 1

RECURSIVE ParseBinary(_, _, _)
RECURSIVE ParseLoop(_, _, _)
RECURSIVE ParseUnary(_, _)

\* the closing parenthesis after the expression r
CloseParen(w, r, q) ==
  IF r.v.k = "err" THEN Fail
  ELSE IF q # 0 /\ At(w, q) = ")" THEN Res(r.v, q + 1)
  ELSE Fail

AfterTrivia(w, r) == IF r.v.k = "err" THEN 0 ELSE SkipTrivia(w, r.p)

\* a parenthesised expression
ParseParen(w, r) == CloseParen(w, r, AfterTrivia(w, r))

\* a primary expression at p, the white space before it skipped
ParsePrimary(w, p) ==
  IF At(w, p) = "(" THEN ParseParen(w, ParseBinary(w, p + 1, 1))
  ELSE IF At(w, p) \in Digits \/ At(w, p) = "." THEN LexNumber(w, p)
  ELSE IF At(w, p) = "/" THEN LexRegex(w, p)
  ELSE Fail

\* the unary operator c applied to the operand r
ApplyUnary(c, r) ==
  IF r.v.k = "err" THEN Fail
  ELSE [v |-> IF c = "-" THEN Neg(ToNumber(r.v)) ELSE ToNumber(r.v), p |-> r.p, un |-> TRUE]

\* a unary expression at p, the white space before it skipped
UnaryAt(w, p) ==
  IF OpAt(w, p) \in {"+", "-"} THEN ApplyUnary(At(w, p), ParseUnary(w, p + 1))
  ELSE IF OpAt(w, p) = "++" THEN Fail
  ELSE ParsePrimary(w, p)

ParseUnary(w, p0) == UnaryAt(w, SkipTrivia(w, p0))

\* left op r, read up to the end of r
Combine(op, left, r) ==
  IF r.v.k = "err" THEN Fail ELSE Res(Binary(op, left.v, r.v), r.p)

\* the operators of precedence at least minPrec that follow the operand
\* left, op being the token at q; an unparenthesised unary expression is no
\* base of **
LoopAt(w, left, minPrec, q, op) ==
  IF left.v.k = "err" THEN Fail
  ELSE IF op = "++" THEN Fail
  ELSE IF op = "" \/ Prec(op) < minPrec THEN left
  ELSE IF op = "**" /\ left.un THEN Fail
  ELSE ParseLoop(w, Combine(op, left, ParseBinary(w, q + Len(op), RightPrec(op))), minPrec)

LoopFrom(w, left, minPrec, q) == LoopAt(w, left, minPrec, q, OpAt(w, q))

ParseLoop(w, left, minPrec) == LoopFrom(w, left, minPrec, AfterTrivia(w, left))

\* an expression at p0 whose operators have precedence at least minPrec
ParseBinary(w, p0, minPrec) == ParseLoop(w, ParseUnary(w, p0), minPrec)

\* the text is read to its end
AtEnd(w, r) ==
  IF r.v.k = "err" THEN Errv
  ELSE IF SkipTrivia(w, r.p) # Len(w) + 1 THEN Errv
  ELSE r.v

EvaluateWrapped(w) == AtEnd(w, ParseBinary(w, 1, 1))

\* the value of return (text), or "err" when building or running it throws
Evaluate(text) == EvaluateWrapped(<<"(">> \o text \o <<")">>)

(***************************************************************************)
(* updateDisplay, showError and the timer callback.                        *)
(***************************************************************************)
\* updateDisplay: state.expr || "0"
updateDisplay(e) == IF e = <<>> THEN <<"0">> ELSE e

\* what a handler records about itself: its name, its argument, the branch
\* it took and the text it found in state.expr
Hist(op, arg, out) == [op |-> op, arg |-> arg, out |-> out, pre |-> expr]

\* clearAll and the timer callback do not read state.expr
HistNoRead(op, out) == [op |-> op, arg |-> "", out |-> out, pre |-> <<>>]

\* showError as it would be if it also emptied state.expr at once
showErrorClearing(msg, op, arg) ==
  /\ timers < MaxTimers
  /\ display' = MsgText(msg)
  /\ errorClass' = TRUE
  /\ timers' = timers + 1
  /\ expr' = <<>>
  /\ last' = Hist(op, arg, msg)

\* showError as it would be without the setTimeout
showErrorUnscheduled(msg, op, arg) ==
  /\ timers < MaxTimers
  /\ display' = MsgText(msg)
  /\ errorClass' = TRUE
  /\ timers' = timers
  /\ expr' = expr
  /\ last' = Hist(op, arg, msg)

\* showError(msg): the message is displayed, the class is added and one
\* reset is scheduled; state.expr is not written
showError(msg, op, arg) ==
  /\ timers < MaxTimers
  /\ display' = MsgText(msg)
  /\ errorClass' = TRUE
  /\ timers' = timers + 1
  /\ expr' = expr
  /\ last' = Hist(op, arg, msg)

\* the callback as it would be if it only removed the class
TimerFireKeeping ==
  /\ timers > 0
  /\ timers' = timers - 1
  /\ errorClass' = FALSE
  /\ UNCHANGED <<expr, display>>
  /\ last' = HistNoRead("timer", "reset")
  /\ UNCHANGED <<variant, angleMode>>

\* the callback as it would be if it left the class on the display
TimerFireStyled ==
  /\ timers > 0
  /\ timers' = timers - 1
  /\ errorClass' = errorClass
  /\ expr' = <<>>
  /\ display' = updateDisplay(<<>>)
  /\ last' = HistNoRead("timer", "reset")
  /\ UNCHANGED <<variant, angleMode>>

\* the callback of setTimeout in showError
TimerFire ==
  /\ timers > 0
  /\ timers' = timers - 1
  /\ errorClass' = FALSE
  /\ expr' = <<>>
  /\ display' = updateDisplay(<<>>)
  /\ last' = HistNoRead("timer", "reset")
  /\ UNCHANGED <<variant, angleMode>>

(***************************************************************************)
(* The editing handlers.                                                   *)
(***************************************************************************)
\* appendValue as it would be without the rule for "0"
appendTextAlways(e, val) ==
  Append(e, IF val \in DOMAIN symbolMap THEN symbolMap[val] ELSE val)

\* the text appendValue(val) leaves in state.expr
appendText(e, val) ==
  LET v == IF val \in DOMAIN symbolMap THEN symbolMap[val] ELSE val
  IN IF e = <<"0">> /\ v \in Digits THEN <<v>> ELSE Append(e, v)

appendValue(val) ==
  /\ expr' = appendText(expr, val)
  /\ display' = updateDisplay(expr')
  /\ last' = Hist("append", val, "ok")
  /\ UNCHANGED <<variant, errorClass, timers, angleMode>>

clearAll ==
  /\ expr' = <<>>
  /\ display' = updateDisplay(expr')
  /\ errorClass' = FALSE
  /\ last' = HistNoRead("clear", "ok")
  /\ UNCHANGED <<variant, timers, angleMode>>

\* state.expr.slice(1)
sliceFirst(e) == IF e = <<>> THEN <<>> ELSE Tail(e)

\* state.expr.slice(0, -1)
sliceLast(e) == IF e = <<>> THEN <<>> ELSE SubSeq(e, 1, Len(e) - 1)

deleteLast ==
  /\ expr' = sliceLast(expr)
  /\ display' = updateDisplay(expr')
  /\ errorClass' = FALSE
  /\ last' = Hist("delete", "", "ok")
  /\ UNCHANGED <<variant, timers, angleMode>>

\* the text negateLastNumber leaves in state.expr
negateText(e) ==
  LET prefix == matchPrefix(e)
      lst == matchLast(e)
  IN IF lst = <<>> THEN Append(e, "-")
     ELSE IF lst[1] = "-" THEN prefix \o Tail(lst)
     ELSE prefix \o <<"-">> \o lst

negateLastNumber ==
  /\ expr' = negateText(expr)
  /\ display' = updateDisplay(expr')
  /\ last' = Hist("negate", "", "ok")
  /\ UNCHANGED <<variant, errorClass, timers, angleMode>>

(***************************************************************************)
(* percentLastNumber.                                                      *)
(***************************************************************************)
\* the outcome of a handler on a text: the branch it took and the text it
\* leaves in state.expr
Outcome(kind, text) == [kind |-> kind, text |-> text]

\* String(num / 100) alone, the prefix dropped
percentTextWhole(prefix, pct, e) ==
  IF pct.k # "num" THEN Outcome("unrep", e) ELSE Outcome("ok", numToString(pct))

\* prefix + String(num / 100)
percentText(prefix, pct, e) ==
  IF pct.k # "num" THEN Outcome("unrep", e) ELSE Outcome("ok", prefix \o numToString(pct))

percentOf(e, prefix, lst, num) ==
  IF lst = <<>> \/ num.k = "nan" THEN Outcome("noop", e)
  ELSE IF ~BinaryExact(num) THEN Outcome("unrep", e)
  ELSE percentText(prefix, Div(num, IntV(100)), e)

percentParsed(e, prefix, lst) == percentOf(e, prefix, lst, parseFloat(lst))

\* what percentLastNumber does to the text e: nothing ("noop"), a new text
\* ("ok"), or a result the arithmetic does not carry ("unrep")
percentOutcome(e) == percentParsed(e, matchPrefix(e), matchLast(e))

percentLastNumber ==
  \E o \in {percentOutcome(expr)} :
    /\ o.kind # "unrep"
    /\ expr' = o.text
    /\ display' = IF o.kind = "ok" THEN updateDisplay(expr') ELSE display
    /\ last' = Hist("percent", "", o.kind)
    /\ UNCHANGED <<variant, errorClass, timers, angleMode>>

(***************************************************************************)
(* calculate.                                                              *)
(***************************************************************************)
\* calculate as it would be without the check for Infinity and NaN
calcResultUnchecked(e, result, vr) ==
  IF result.k \in {"err", "obj"} THEN Outcome("Error", e)
  ELSE IF result.k = "inf" THEN Outcome("ok", <<"I", "n", "f", "i", "n", "i", "t", "y">>)
  ELSE IF result.k = "nan" THEN Outcome("ok", <<"N", "a", "N">>)
  ELSE IF result.k = "unrep" \/ ~Formattable(result) THEN Outcome("unrep", e)
  ELSE Outcome("ok", formatResult(result, vr))

\* the branch calculate takes once the text has evaluated to result
calcResult(e, result, vr) ==
  IF result.k = "err" THEN Outcome("Error", e)
  ELSE IF result.k \in {"inf", "nan"} THEN Outcome("Math error", e)
  ELSE IF result.k = "obj" THEN Outcome("Error", e)
  ELSE IF result.k = "unrep" \/ ~Formattable(result) THEN Outcome("unrep", e)
  ELSE Outcome("ok", formatResult(result, vr))

calcNormalized(e, exprRaw, vr) ==
  IF e = <<>> THEN Outcome("noop", e)
  ELSE IF ~allowedRE(exprRaw, vr) THEN Outcome("Invalid characters", e)
  ELSE calcResult(e, Evaluate(safeExpr(exprRaw, vr)), vr)

\* the branch calculate takes on the text e: "noop" (empty), a message of
\* showError, "ok" with the text assigned to state.expr, or "unrep"
calcOutcome(e, vr) == calcNormalized(e, normalizeExpression(e, vr), vr)

IsMessage(kind) == kind \in {"Math error", "Invalid", "Invalid characters", "Error"}

calculate ==
  \E o \in {calcOutcome(expr, variant)} :
    /\ o.kind # "unrep"
    /\ IF IsMessage(o.kind) THEN showError(o.kind, "calculate", "")
       ELSE /\ expr' = o.text
            /\ display' = IF o.kind = "ok" THEN updateDisplay(expr') ELSE display
            /\ last' = Hist("calculate", "", o.kind)
            /\ UNCHANGED <<errorClass, timers>>
    /\ UNCHANGED <<variant, angleMode>>

(***************************************************************************)
(* applySciFunction.                                                       *)
(***************************************************************************)
\* Math.PI.toString() and Math.E.toString()
PiText == <<"3", ".", "1", "4", "1", "5", "9", "2", "6", "5", "3", "5", "8", "9", "7", "9", "3">>
EText == <<"2", ".", "7", "1", "8", "2", "8", "1", "8", "2", "8", "4", "5", "9", "0", "4", "5">>

\* the functions of the switch, and a name the switch does not know
EvalFns ==
  {"sin", "cos", "tan", "asin", "acos", "atan", "ln", "log10", "sqrt",
   "pow2", "pow3", "exp", "abs", "reciprocal", "factorial"}
SciFns == EvalFns \cup {"pow", "pi", "e", "percent", "negate", "other"}

Half(s) == [k |-> "num", s |-> s, n |-> 5, d |-> 1, e |-> -1]

\* the sine of an angle of a whole, non-negative number of degrees, where
\* it is rational
SinDeg(a) ==
  CASE a % 360 \in {0, 180} -> Zero(1)
    [] a % 360 \in {30, 150} -> Half(1)
    [] a % 360 = 90 -> One
    [] a % 360 \in {210, 330} -> Half(-1)
    [] a % 360 = 270 -> Neg(One)
    [] OTHER -> Unrep

TanDeg(a) ==
  CASE a % 180 = 0 -> Zero(1)
    [] a % 180 = 45 -> One
    [] a % 180 = 135 -> Neg(One)
    [] OTHER -> Unrep

\* whole degrees up to this are reduced
MaxDegrees == 720

\* sine and tangent are odd
OddFn(v, s) == IF s = 1 THEN v ELSE Neg(v)

TrigDeg(fn, a, s) ==
  IF a < 0 \/ a > MaxDegrees THEN Unrep
  ELSE IF fn = "tan" THEN OddFn(TanDeg(a), s)
  ELSE OddFn(SinDeg(IF fn = "cos" THEN a + 90 ELSE a), IF fn = "cos" THEN 1 ELSE s)

\* Math.sin, Math.cos and Math.tan of toRad(num)
Trig(fn, num, mode) ==
  IF num.n = 0 THEN (IF fn = "cos" THEN One ELSE Zero(num.s))
  ELSE IF mode = "rad" THEN Unrep
  ELSE TrigDeg(fn, SmallNat(num), num.s)

IsOne(v) == v.k = "num" /\ v.n = 1 /\ v.d = 1 /\ v.e = 0
IsHalf(v) == v.k = "num" /\ v.n = 5 /\ v.d = 1 /\ v.e = -1

\* |v| > 1 for a finite carried value with a terminating expansion
AboveOne(v) == v.n # 0 /\ (v.e > 0 \/ NumDigits(v.n) + v.e > 1 \/ (v.e = 0 /\ v.n > 1))

\* the whole degrees of the arc of a non-zero num, -1 where it has none
ArcDegrees(fn, num) ==
  CASE fn = "acos" /\ IsOne(num) -> 180
    [] fn = "acos" /\ IsHalf(num) -> IF num.s = 1 THEN 60 ELSE 120
    [] fn = "asin" /\ IsOne(num) -> 90
    [] fn = "asin" /\ IsHalf(num) -> 30
    [] fn = "atan" /\ IsOne(num) -> 45
    [] OTHER -> -1

\* the arc of d degrees, with the sign s for the odd functions
ArcValue(fn, d, s) ==
  IF d < 0 THEN Unrep ELSE IntV(IF fn = "acos" THEN d ELSE s * d)

\* fromRad(Math.asin(num)), fromRad(Math.acos(num)), fromRad(Math.atan(num))
ArcTrig(fn, num, mode) ==
  IF fn # "atan" /\ AboveOne(num) THEN NaNv
  ELSE IF fn = "acos" /\ IsOne(num) /\ num.s = 1 THEN Zero(1)
  ELSE IF fn # "acos" /\ num.n = 0 THEN Zero(num.s)
  ELSE IF mode = "rad" THEN Unrep
  ELSE ArcValue(fn, IF num.n = 0 THEN 90 ELSE ArcDegrees(fn, num), num.s)

\* the largest r with r * r <= n, between lo and hi
RECURSIVE ISqrt(_, _, _)
ISqrt(n, lo, hi) ==
  IF lo >= hi THEN lo
  ELSE IF ((lo + hi + 1) \div 2) * ((lo + hi + 1) \div 2) <= n
    THEN ISqrt(n, (lo + hi + 1) \div 2, hi)
  ELSE ISqrt(n, lo, (lo + hi + 1) \div 2 - 1)

\* the root r of the numerator of num, if it is one
SqrtOf(num, r) ==
  IF num.d = 1 /\ num.e % 2 = 0 /\ r * r = num.n THEN Norm(1, r, 1, num.e \div 2)
  ELSE Unrep

\* Math.sqrt(num)
Sqrt(num) ==
  IF num.n = 0 THEN num
  ELSE IF num.s = -1 THEN NaNv
  ELSE SqrtOf(num, ISqrt(num.n, 0, 31623))

\* Math.log(num) and Math.log10(num)
Log(fn, num) ==
  IF num.n = 0 THEN Infv(-1)
  ELSE IF num.s = -1 THEN NaNv
  ELSE IF IsOne(num) THEN Zero(1)
  ELSE IF fn = "log10" /\ num.n = 1 /\ num.d = 1
    THEN IntV(num.e)
  ELSE Unrep

\* Math.exp(num): 1 at zero, Infinity from 710 on, 0 below -746
Exp(num) ==
  IF num.n = 0 THEN One
  ELSE IF NumDigits(num.n) + num.e >= 4 THEN (IF num.s = 1 THEN Infv(1) ELSE Zero(1))
  ELSE Unrep

\* the digits of the product of the number ds denotes and k, with carry c
RECURSIVE MulDigits(_, _, _)
MulDigits(ds, k, c) ==
  IF ds = <<>> THEN (IF c = 0 THEN <<>> ELSE IntDigits(c))
  ELSE Append(MulDigits(SubSeq(ds, 1, Len(ds) - 1), k,
                        (DigitVal(ds[Len(ds)]) * k + c) \div 10),
              DigitChar((DigitVal(ds[Len(ds)]) * k + c) % 10))

\* factorial(n): let res = 1; for (i = 2; i <= n; i++) res *= i, in digits
RECURSIVE factorialLoop(_, _, _)
factorialLoop(res, i, n) ==
  IF i > n THEN res ELSE factorialLoop(MulDigits(res, i, 0), i + 1, n)

\* factorial as it would be with the loop starting at 3
factorialFromThree(n) == factorialLoop(<<"1">>, 3, n)

factorial(n) == factorialLoop(<<"1">>, 2, n)

\* up to 22! every product of the loop is a double exactly; from 171! on
\* the product is Infinity
MaxExactFactorial == 22
MinInfiniteFactorial == 171

\* Number::toString of the whole number with the digits ds, of which a
\* double of that size shows 17
SeventeenDigits(ds) ==
  DigitsToString(FALSE,
                 StripTrailingZeros(RoundUp(SubSeq(ds, 1, 17), DigitVal(ds[18]) >= 5)),
                 Len(ds))

\* the text of the number with the digits ds: in full below 10^21
factorialDigits(ds) == IF Len(ds) <= 21 THEN ds ELSE SeventeenDigits(ds)

\* formatResult(factorial(n)) for a whole n >= 0: the digits of n! up to
\* 22!, "inf" from 171! on, "unrep" between
factorialText(n) ==
  IF n >= MinInfiniteFactorial THEN <<"inf">>
  ELSE IF n <= MaxExactFactorial THEN factorialDigits(factorial(n))
  ELSE <<"unrep">>

\* the numeric result of the switch for the functions other than factorial
sciValue(fn, num, mode) ==
  CASE fn \in {"sin", "cos", "tan"} -> Trig(fn, num, mode)
    [] fn \in {"asin", "acos", "atan"} -> ArcTrig(fn, num, mode)
    [] fn \in {"ln", "log10"} -> Log(fn, num)
    [] fn = "sqrt" -> Sqrt(num)
    [] fn = "pow2" -> Mul(num, num)
    [] fn = "pow3" -> Mul(Mul(num, num), num)
    [] fn = "exp" -> Exp(num)
    [] fn = "abs" -> [num EXCEPT !.s = 1]
    [] fn = "reciprocal" -> Div(One, num)

\* the check of the result for Infinity and NaN, then replaceLast
sciResult(e, prefix, result) ==
  IF result.k \in {"inf", "nan"} THEN Outcome("Math error", e)
  ELSE IF result.k = "unrep" \/ ~Formattable(result) THEN Outcome("unrep", e)
  ELSE Outcome("ok", prefix \o formatResult(result, "sci"))

\* the same for factorial, whose result is carried as its text
factorialResult(e, prefix, t) ==
  IF t = <<"inf">> THEN Outcome("Math error", e)
  ELSE IF t = <<"unrep">> THEN Outcome("unrep", e)
  ELSE Outcome("ok", prefix \o t)

\* the whole number n whose factorial is taken: beyond IntLimit the product
\* is Infinity as it is from MinInfiniteFactorial on
factorialArg(n) == IF n < 0 THEN MinInfiniteFactorial ELSE n

\* the switch as it would be if parseFloat's NaN were not checked for
sciSwitchUnchecked(fn, e, prefix, lst, num, mode) ==
  IF lst = <<>> THEN Outcome("noop", e)
  ELSE IF fn \notin EvalFns THEN Outcome("noop", e)
  ELSE IF num.k = "unrep" THEN Outcome("unrep", e)
  ELSE IF num.k = "nan" THEN Outcome("Math error", e)
  ELSE IF fn = "reciprocal" /\ num.n = 0 THEN Outcome("Math error", e)
  ELSE IF fn = "factorial"
    THEN IF (num.s = -1 /\ num.n # 0) \/ ~IsIntegerNum(num) THEN Outcome("Invalid", e)
         ELSE factorialResult(e, prefix, factorialText(factorialArg(SmallNat(num))))
  ELSE sciResult(e, prefix, sciValue(fn, num, mode))

\* the switch on fn, for the number num that parseFloat(last) returned
sciSwitch(fn, e, prefix, lst, num, mode) ==
  IF lst = <<>> \/ num.k = "nan" THEN Outcome("noop", e)
  ELSE IF fn \notin EvalFns THEN Outcome("noop", e)
  ELSE IF num.k = "unrep" THEN Outcome("unrep", e)
  ELSE IF fn = "reciprocal" /\ num.n = 0 THEN Outcome("Math error", e)
  ELSE IF fn = "factorial"
    THEN IF (num.s = -1 /\ num.n # 0) \/ ~IsIntegerNum(num) THEN Outcome("Invalid", e)
         ELSE factorialResult(e, prefix, factorialText(factorialArg(SmallNat(num))))
  ELSE sciResult(e, prefix, sciValue(fn, num, mode))

sciParsed(fn, e, prefix, lst, mode) == sciSwitch(fn, e, prefix, lst, parseFloat(lst), mode)

\* what applySciFunction(fn) does for a function of the switch on the
\* text e: "noop", a message of showError, "ok" with the new text, "unrep"
sciOutcome(fn, e, mode) == sciParsed(fn, e, matchPrefix(e), matchLast(e), mode)

\* what applySciFunction(fn) does on the text e
applyOutcome(fn, e, mode) ==
  IF fn = "pow" THEN Outcome("ok", Append(e, "^"))
  ELSE IF fn = "pi" THEN Outcome("ok", matchPrefix(e) \o PiText)
  ELSE IF fn = "e" THEN Outcome("ok", matchPrefix(e) \o EText)
  ELSE IF fn = "percent" THEN percentOutcome(e)
  ELSE IF fn = "negate" THEN Outcome("ok", negateText(e))
  ELSE sciOutcome(fn, e, mode)

applySciFunction(fn) ==
  \E o \in {applyOutcome(fn, expr, angleMode)} :
    /\ variant = "sci"
    /\ o.kind # "unrep"
    /\ IF IsMessage(o.kind) THEN showError(o.kind, "sci", fn)
       ELSE /\ expr' = o.text
            /\ display' = IF o.kind = "ok" THEN updateDisplay(expr') ELSE display
            /\ last' = Hist("sci", fn, o.kind)
            /\ UNCHANGED <<errorClass, timers>>
    /\ UNCHANGED <<variant, angleMode>>

\* a toggle that also starts the expression afresh
degToggleResetting ==
  /\ variant = "sci"
  /\ angleMode' = IF angleMode = "deg" THEN "rad" ELSE "deg"
  /\ expr' = <<>>
  /\ display' = updateDisplay(expr')
  /\ errorClass' = FALSE
  /\ last' = Hist("toggle", "", "ok")
  /\ UNCHANGED <<variant, timers>>

\* the click handler of degToggleBtn
degToggle ==
  /\ variant = "sci"
  /\ angleMode' = IF angleMode = "deg" THEN "rad" ELSE "deg"
  /\ last' = Hist("toggle", "", "ok")
  /\ UNCHANGED <<variant, expr, display, errorClass, timers>>

(***************************************************************************)
(* The specifications.                                                     *)
(***************************************************************************)
\* the texts of at most L characters over the characters K
Texts(K, L) == UNION {[1..n -> K] : n \in 0..L}

\* the page as loaded in one of the variants V, with one of the texts T
\* typed and one of the angle modes A in the session storage
InitV(V, T, A) ==
  /\ variant \in V
  /\ expr \in T
  /\ display = updateDisplay(expr)
  /\ errorClass = FALSE
  /\ timers = 0
  /\ angleMode \in A
  /\ last = HistNoRead("init", "ok")

\* A handler that appends acts on the texts shorter than MaxLen, one that
\* computes on the texts no longer than MaxLen.
CanGrow == Len(expr) < MaxLen
CanCompute == Len(expr) <= MaxLen

\* the keys of the keypad that Spec presses
Keys == {"0", "5", "3", "-", "TIMES"}

\* the keypad, in both variants
Init == InitV({"sci", "basic"}, {<<>>}, {"deg"})

Next ==
  \/ \E val \in Keys : CanGrow /\ appendValue(val)
  \/ clearAll
  \/ deleteLast
  \/ negateLastNumber
  \/ CanCompute /\ percentLastNumber
  \/ CanCompute /\ calculate
  \/ TimerFire

Spec == Init /\ [][Next]_vars

\* the characters of the texts that SpecEval evaluates
EvalKeys == {"0", "2", "3", "/", "^", "*", "-", "+", "%", ".", "(", ")"}

\* calculate on every text, in both variants
InitEval == InitV({"sci", "basic"}, Texts(EvalKeys, MaxLen), {"deg"})

NextEval ==
  \/ CanCompute /\ calculate
  \/ TimerFire

SpecEval == InitEval /\ [][NextEval]_vars

\* the characters of the texts that SpecSci applies the functions to
SciKeys == {"0", "2", "5", "-", ".", "+"}

\* the scientific panel on every text
InitSci == InitV({"sci"}, Texts(SciKeys, MaxLen), {"deg", "rad"})

\* the buttons of the panel that SpecSci presses
SciButtons ==
  {"sin", "acos", "ln", "sqrt", "reciprocal", "factorial",
   "pow", "pi", "e", "percent", "negate", "other"}

NextSci ==
  \/ \E fn \in SciButtons : CanCompute /\ applySciFunction(fn)
  \/ degToggle
  \/ TimerFire

SpecSci == InitSci /\ [][NextSci]_vars

\* the keys and buttons that SpecLive presses
LiveKeys == {"5", "-"}
LiveButtons == {"sqrt", "reciprocal"}

\* every handler that edits, evaluates or fails, with the timer callback
\* run whenever a timeout is pending: a pending timeout expires after 900 ms
\* and nothing cancels it
NextLive ==
  \/ \E val \in LiveKeys : CanGrow /\ appendValue(val)
  \/ clearAll
  \/ deleteLast
  \/ negateLastNumber
  \/ CanCompute /\ percentLastNumber
  \/ CanCompute /\ calculate
  \/ \E fn \in LiveButtons : CanCompute /\ applySciFunction(fn)
  \/ TimerFire

InitLive == InitV({"sci"}, {<<>>}, {"deg"})

SpecLive == InitLive /\ [][NextLive]_vars /\ WF_vars(TimerFire)

\* the keys and buttons that SpecPage presses
PageKeys == {"2", "-", "TIMES"}
PageButtons == {"factorial", "pi", "sqrt"}

\* the whole page: every handler of the keypad and of the panel, the angle
\* toggle and the timer callback, from the empty expression
NextPage ==
  \/ \E val \in PageKeys : CanGrow /\ appendValue(val)
  \/ clearAll
  \/ deleteLast
  \/ negateLastNumber
  \/ CanCompute /\ percentLastNumber
  \/ CanCompute /\ calculate
  \/ \E fn \in PageButtons : CanCompute /\ applySciFunction(fn)
  \/ degToggle
  \/ TimerFire

SpecPage == InitV({"sci", "basic"}, {<<>>}, {"deg", "rad"}) /\ [][NextPage]_vars

\* the longest operand of the texts that SpecTwice evaluates
OperandLen == 2

\* the operands of those texts
Operands == Texts({"0", "1", "7", "."}, OperandLen)

\* calculate, again and again, on the text it left
NextTwice ==
  \/ calculate
  \/ TimerFire

\* calculate on every text of two operands and one operator, in both
\* variants
SpecTwice ==
  /\ InitV({"sci", "basic"},
           {l \o <<op>> \o r : l \in Operands, op \in {"^", "/", "-", "*"}, r \in Operands},
           {"deg"})
  /\ [][NextTwice]_vars

(***************************************************************************)
(* Properties.                                                             *)
(***************************************************************************)
\* the text holds no number at its end: it is empty, or ends in a character
\* that is no digit and no point, or in a point that follows no digit
NoTrailingNumber(e) ==
  \/ e = <<>>
  \/ e[Len(e)] \notin Digits \cup {"."}
  \/ e[Len(e)] = "." /\ (Len(e) = 1 \/ e[Len(e) - 1] \notin Digits)

EndsInNumber(e) == ~NoTrailingNumber(e)

\* C1: negating twice in a row restores the text, for every text that
\* begins with a digit and ends in a number (a number, or two numbers with
\* an operator between them): after a negation of such a text, a second
\* negation leaves the text the first one read.
C1_NegateTwiceRestores ==
  [][(/\ last.op = "negate"
      /\ last.pre # <<>>
      /\ last.pre[1] \in Digits
      /\ EndsInNumber(last.pre)
      /\ last'.op = "negate")
       => expr' = last.pre]_vars

\* the characters the claim lists as hanging operators
HangingOps == {"*", "+", "-", "/", "^", "%"}

\* t is an arithmetic expression that evaluates, as it stands, to a finite
\* number
ValidExpression(t, vr) ==
  /\ allowedRE(normalizeExpression(t, vr), vr)
  /\ Evaluate(normalizeExpression(t, vr)).k = "num"

\* C2: calculate on a valid expression E followed by one hanging operator
\* succeeds with the text it produces for E alone (scientific variant).
C2_HangingOperatorStripped ==
  (/\ variant = "sci"
   /\ last.op = "calculate"
   /\ Len(last.pre) >= 2
   /\ last.pre[Len(last.pre)] \in HangingOps
   /\ ValidExpression(sliceLast(last.pre), "sci"))
    => (last.out = "ok" /\ expr = calcOutcome(sliceLast(last.pre), "sci").text)

\* C3: after an evaluating function has failed, state.expr is the text the
\* call found, the message is displayed and the error class is set.
C3_FailedFunctionKeepsText ==
  (last.op = "sci" /\ last.arg \in EvalFns /\ IsMessage(last.out))
    => (expr = last.pre /\ errorClass /\ display = MsgText(last.out))

C3_Witness ==
  /\ last.op = "sci"
  /\ last.arg = "reciprocal"
  /\ last.out = "Math error"
  /\ last.pre = <<"0">>
  /\ expr = <<"0">>
  /\ errorClass

\* C4: every failure schedules exactly one reset; only the firing of a
\* reset removes a pending one, one at a time, and the step in which it
\* fires removes the error class and empties state.expr whatever the text
\* is by then; while a reset is pending one eventually fires.
C4_ResetFires ==
  /\ [][IsMessage(last'.out) => timers' = timers + 1]_vars
  /\ [][timers' # timers =>
          \/ IsMessage(last'.out) /\ timers' = timers + 1
          \/ /\ last'.op = "timer"
             /\ timers' = timers - 1
             /\ expr' = <<>>
             /\ ~errorClass']_vars
  /\ [][last'.op = "timer" => (expr' = <<>> /\ ~errorClass' /\ timers' = timers - 1)]_vars
  /\ (timers > 0 ~> last.op = "timer")

\* a reset fired on an edited text while a second failure's reset is pending
C4_Witness ==
  /\ last.op = "timer"
  /\ timers = 1
  /\ expr = <<>>
  /\ ~errorClass

\* C5: the error class is not set after appendValue.
C5_AppendClearsError == last.op = "append" => ~errorClass

\* C6: negating a text that holds no number at its end leaves that text
\* followed by one minus sign.
C6_NegateAppendsMinus ==
  (last.op = "negate" /\ NoTrailingNumber(last.pre)) => expr = Append(last.pre, "-")

\* the operator a visual symbol stands for
Canonical(val) ==
  CASE val = "TIMES" -> "*"
    [] val = "DIVIDE" -> "/"
    [] val \in {"MINUS", "ENDASH"} -> "-"
    [] OTHER -> val

\* C7: appendValue replaces the text "0" by a digit and otherwise puts the
\* canonical value at the end of the text it found.
C7_AppendSemantics ==
  last.op = "append" =>
    IF last.pre = <<"0">> /\ Canonical(last.arg) \in Digits
      THEN expr = <<Canonical(last.arg)>>
    ELSE /\ Len(expr) = Len(last.pre) + 1
         /\ SubSeq(expr, 1, Len(last.pre)) = last.pre
         /\ expr[Len(expr)] = Canonical(last.arg)

C7_Witness ==
  /\ last.op = "append"
  /\ last.pre = <<"0">>
  /\ last.arg = "5"
  /\ expr = <<"5">>
  /\ display = <<"5">>

UnsignedNumeral(u) ==
  /\ \A i \in 1..Len(u) : u[i] \in Digits \cup {"."}
  /\ Cardinality({i \in 1..Len(u) : u[i] = "."}) <= 1
  /\ \E i \in 1..Len(u) : u[i] \in Digits
  /\ ~(Len(u) >= 2 /\ u[1] = "0" /\ u[2] \in Digits)

\* a is the text of a finite number
NumberText(a) ==
  \/ UnsignedNumeral(a)
  \/ a # <<>> /\ a[1] = "-" /\ UnsignedNumeral(Tail(a))

\* the text is a number divided by 0
DividesByZero(t) ==
  /\ Len(t) >= 3
  /\ SubSeq(t, Len(t) - 1, Len(t)) = <<"/", "0">>
  /\ NumberText(SubSeq(t, 1, Len(t) - 2))

\* the value calculate computes for the text t is an infinity or NaN
NotFinite(t, vr) ==
  /\ t # <<>>
  /\ allowedRE(normalizeExpression(t, vr), vr)
  /\ Evaluate(safeExpr(normalizeExpression(t, vr), vr)).k \in {"inf", "nan"}

\* C9: calculate on a number divided by 0, and on any text whose value is
\* an infinity or NaN, shows "Math error", sets the error class and leaves
\* state.expr as it was.
C9_DivisionByZero ==
  (last.op = "calculate" /\ (DividesByZero(last.pre) \/ NotFinite(last.pre, variant)))
    => (last.out = "Math error" /\ errorClass /\ expr = last.pre
        /\ display = MsgMathError)

C9_Witness ==
  /\ last.op = "calculate"
  /\ last.pre = <<"2", "/", "0">>
  /\ last.out = "Math error"
  /\ errorClass
  /\ expr = <<"2", "/", "0">>

\* the digits of n! by n! = n * (n - 1)!, 0! = 1! = 1
RECURSIVE ProductUpTo(_)
ProductUpTo(n) == IF n <= 1 THEN <<"1">> ELSE MulDigits(ProductUpTo(n - 1), n, 0)

\* the digits at the end of the text
RECURSIVE TrailingDigits(_)
TrailingDigits(e) ==
  IF e # <<>> /\ e[Len(e)] \in Digits
    THEN Append(TrailingDigits(sliceLast(e)), e[Len(e)])
  ELSE <<>>

\* the text before the digits at the end
BeforeDigits(e) == SubSeq(e, 1, Len(e) - Len(TrailingDigits(e)))

\* the character before the digits at the end, "" if there is none
SignOrPoint(e) == IF BeforeDigits(e) = <<>> THEN "" ELSE BeforeDigits(e)[Len(BeforeDigits(e))]

\* the text ends in a whole number written without sign and point
WholeNumberAtEnd(e) == TrailingDigits(e) # <<>> /\ SignOrPoint(e) \notin {"-", "."}

\* the text ends in a number below zero or in one with a fraction
NegativeOrFractionAtEnd(e) ==
  /\ TrailingDigits(e) # <<>>
  /\ DigitsValue(TrailingDigits(e)) > 0
  /\ SignOrPoint(e) \in {"-", "."}

\* factorial on the text read, up to the whole number top
FactorialUpTo(top) ==
  (last.op = "sci" /\ last.arg = "factorial") =>
    /\ (WholeNumberAtEnd(last.pre) /\ DigitsValue(TrailingDigits(last.pre)) <= top)
         => /\ last.out = "ok"
            /\ expr = BeforeDigits(last.pre)
                         \o ProductUpTo(DigitsValue(TrailingDigits(last.pre)))
    /\ NegativeOrFractionAtEnd(last.pre)
         => (last.out = "Invalid" /\ expr = last.pre /\ errorClass)

TrailingNumber(e) ==
  LET ends == {i \in 0..Len(e) :
                 /\ MatchesTail(SubSeq(e, i + 1, Len(e)))
                 /\ \E j \in (i + 1)..Len(e) : e[j] \in Digits}
  IN IF ends = {} THEN <<>>
     ELSE SubSeq(e, (CHOOSE i \in ends : \A j \in ends : i <= j) + 1, Len(e))

BeforeNumber(e) == SubSeq(e, 1, Len(e) - Len(TrailingNumber(e)))

\* the decimal text of the number with the significant digits ds (no zero
\* at either end) and p digits before the point
DecimalText(neg, ds, p) ==
  LET body == IF p <= 0 THEN <<"0", ".">> \o Zeros(-p) \o ds
              ELSE IF p >= Len(ds) THEN ds \o Zeros(p - Len(ds))
              ELSE SubSeq(ds, 1, p) \o <<".">> \o SubSeq(ds, p + 1, Len(ds))
  IN IF ds = <<>> THEN <<"0">> ELSE IF neg THEN <<"-">> \o body ELSE body

\* the decimal text of u / 100 for the unsigned number text u: its point
\* moved two places to the left
HundredthUnsigned(neg, u) ==
  LET whole == StripLeadingZeros(SubSeq(u, 1, PointPos(u) - 1))
      frac == SubSeq(u, PointPos(u) + 1, Len(u))
      lead == StripLeadingZeros(whole \o frac)
  IN DecimalText(neg, StripTrailingZeros(lead),
                 Len(whole) - 2 - (Len(whole \o frac) - Len(lead)))

Hundredth(t) ==
  IF t[1] = "-" THEN HundredthUnsigned(TRUE, Tail(t)) ELSE HundredthUnsigned(FALSE, t)

\* C11: percentLastNumber leaves a text without a trailing number as it is;
\* otherwise the text after it is the text before the trailing number n
\* followed by the decimal text of n / 100 (n a number that num / 100
\* divides without rounding error in the text).
C11_PercentDividesByHundred ==
  last.op = "percent" =>
    IF TrailingNumber(last.pre) = <<>> THEN expr = last.pre
    ELSE expr = BeforeNumber(last.pre) \o Hundredth(TrailingNumber(last.pre))

C11_Witness ==
  /\ last.op = "percent"
  /\ last.pre = <<"3", "*", "5">>
  /\ expr = <<"3", "*", "0", ".", "0", "5">>

\* the characters of an expression: digits, the point, the operators, the
\* power marker and the parentheses
ExpressionChars == Digits \cup {".", "+", "-", "*", "/", "%", "^", "(", ")"}

\* C12: the stored expression holds only digits, ".", the operators
\* + - * / %, the power marker and parentheses.
C12_ExpressionCharacters == \A i \in 1..Len(expr) : expr[i] \in ExpressionChars

\* C13: only the toggle changes the angle mode, every other handler and
\* the timer callback leave it; the toggle changes the mode and leaves the
\* expression and the error class.
C13_AngleModeFrame ==
  [][/\ last'.op # "toggle" => angleMode' = angleMode
     /\ last'.op = "toggle" => (angleMode' # angleMode /\ UNCHANGED <<expr, errorClass>>)]_vars

C13_Witness ==
  /\ last.op = "toggle"
  /\ angleMode = "rad"
  /\ expr = <<"2", "*">>
  /\ errorClass

\* C14: deleteLast removes the last character of the expression and
\* changes no other one; on the empty expression it leaves it empty; it
\* schedules no reset and the error class is off afterwards.
C14_DeleteRemovesLast ==
  [][last'.op = "delete" =>
       /\ ~errorClass'
       /\ timers' = timers
       /\ IF expr = <<>> THEN expr' = <<>>
          ELSE expr = Append(expr', expr[Len(expr)])]_vars

C14_Witness ==
  /\ last.op = "delete"
  /\ last.pre = <<"5", "*", "-">>
  /\ expr = <<"5", "*">>
  /\ timers = 1
  /\ ~errorClass

\* the text ends in an operator or in a parenthesis
EndsInOperator(e) ==
  e # <<>> /\ e[Len(e)] \in {"+", "-", "*", "/", "%", "^", "(", ")"}

\* C15: the buttons pi and e replace the trailing number by the decimal
\* text of the constant; on the empty expression and on one that ends in an
\* operator or a parenthesis the constant is appended and nothing is
\* removed; the error class is never set.
C15_ConstantReplacesNumber ==
  (last.op = "sci" /\ last.arg \in {"pi", "e"}) =>
    /\ last.out = "ok"
    /\ ~errorClass
    /\ (last.pre = <<>> \/ EndsInOperator(last.pre))
         => expr = last.pre \o (IF last.arg = "pi" THEN PiText ELSE EText)
    /\ TrailingNumber(last.pre) # <<>>
         => expr = BeforeNumber(last.pre) \o (IF last.arg = "pi" THEN PiText ELSE EText)

\* C16: when a failure is surfaced while the reset of an earlier failure
\* is pending, the firing of the earlier reset leaves the error class of
\* the later failure set.
C16_LaterErrorStaysVisible ==
  [][(IsMessage(last.out) /\ timers >= 2 /\ last'.op = "timer") => errorClass']_vars

\* the text of a decimal number: an optional minus, digits, and an optional
\* point with digits
DecimalNumberText(t) ==
  /\ MatchesTail(t)
  /\ t[Len(t)] \in Digits
  /\ t[1] \in Digits \cup {"-"}

\* evaluate on the expression: nothing on the empty one; otherwise success,
\* with the expression and the display replaced by a number text and no
\* reset scheduled, or one of the three failures, with the message shown,
\* the error class set, one reset scheduled and the expression kept.  The
\* error class after a success is as flagAfter says.
EvaluateStep(flagAfter) ==
     last'.op = "calculate" =>
       IF expr = <<>>
         THEN last'.out = "noop" /\ UNCHANGED <<expr, display, errorClass, timers>>
       ELSE \/ /\ last'.out = "ok"
               /\ DecimalNumberText(expr')
               /\ expr = <<"2", "*", "2">> => expr' = <<"4">>
               /\ display' = expr'
               /\ timers' = timers
               /\ flagAfter
            \/ /\ last'.out \in {"Invalid characters", "Math error", "Error"}
               /\ errorClass'
               /\ display' = MsgText(last'.out)
               /\ timers' = timers + 1
               /\ expr' = expr

C18_ErrorHasPendingReset == errorClass => timers > 0

C18_Witness ==
  /\ errorClass
  /\ timers = 1
  /\ last.op = "negate"

\* C19: when calculate has succeeded and left the result text R in the
\* expression, a calculate that follows at once succeeds too and leaves R.
C19_EvaluateTwice ==
  [][(last.op = "calculate" /\ last.out = "ok" /\ last'.op = "calculate")
       => (last'.out = "ok" /\ expr' = expr)]_vars

=============================================================================
